---- MODULE Spec2Model ----
(***************************************************************************)
(* The notebook "Part 3 - Training Neural Networks (Exercises)" as a state *)
(* machine.  The state is the kernel namespace (the Python variables the   *)
(* cells bind), the module objects they refer to, and the position of the  *)
(* cell being executed.  Every executable statement of every code cell is  *)
(* one step.  Line numbers are those of the .ipynb file.                   *)
(*                                                                         *)
(* Numbers.  A network is abstracted to one scalar weight w, a batch to    *)
(* one scalar target t, the loss of a batch to |w - t| and its gradient to *)
(* sign(w - t).  Weights and losses are counted in thousandths, gradients  *)
(* in units, learning rates in thousandths, so that the update             *)
(* w - lr * grad of the notebook is exact integer arithmetic.              *)
(***************************************************************************)
EXTENDS Integers, Sequences, FiniteSets, TLC

(* ------------------------------------------------------------------ *)
(* Program constants                                                   *)
(* ------------------------------------------------------------------ *)
BatchSize == 64
Epochs == 10
LrDemo == 10
LrTrain == 1
Pixels == 784
Side == 28
Classes == 10

\* the days of the journal
Days == 30

(* Bounds of the model *)
NumBatches == 2
MaxRuns == 3

\* a short final batch: the loader does not drop it (drop_last is not set)
LastBatchSize == BatchSize \div 2

\* what the random initialisation and the shuffled data may produce
InitWeights == {0, 1}
Targets == {0, 1}

Abs(i) == IF i < 0 THEN -i ELSE i
Sign(i) == IF i < 0 THEN -1 ELSE IF i > 0 THEN 1 ELSE 0

(* ------------------------------------------------------------------ *)
(* Layers and shapes                                                   *)
(* ------------------------------------------------------------------ *)
Linear(i, o) == [kind |-> "Linear", in |-> i, out |-> o]
ReLU == [kind |-> "ReLU", in |-> 0, out |-> 0]
LogSoftmax(d) == [kind |-> "LogSoftmax", in |-> d, out |-> 0]

\* the network of the CrossEntropyLoss cell: its output is the raw scores
XentNet ==
  << Linear(Pixels, 128), ReLU, Linear(128, 64), ReLU, Linear(64, Classes) >>

\* the network of the NLLLoss exercise cell
NllNet ==
  << Linear(Pixels, 128), ReLU, Linear(128, 64), ReLU, Linear(64, Classes),
     LogSoftmax(1) >>

\* the network of the "Loss and Autograd together" cell
AutogradNet ==
  << Linear(Pixels, 128), ReLU, Linear(128, 64), ReLU, Linear(64, Classes),
     LogSoftmax(1) >>

\* the training cell's network with its nn.LogSoftmax(dim=1) left out
TrainNetNoSoftmax ==
  << Linear(Pixels, 128), ReLU, Linear(128, 64), ReLU, Linear(64, Classes) >>

\* the network built by the training cell
TrainNet ==
  << Linear(Pixels, 128), ReLU, Linear(128, 64), ReLU, Linear(64, Classes),
     LogSoftmax(1) >>

NetOf(a) ==
  CASE a = "XentNet" -> XentNet
    [] a = "NllNet" -> NllNet
    [] a = "AutogradNet" -> AutogradNet
    [] OTHER -> TrainNet

NoShape == [ok |-> FALSE, shape |-> << >>]

\* a Linear layer maps (*, in) to (*, out) and rejects any other width;
\* ReLU and LogSoftmax keep the shape
LayerShape(l, s) ==
  IF ~s.ok THEN NoShape
  ELSE IF l.kind = "Linear"
       THEN IF Len(s.shape) >= 1 /\ s.shape[Len(s.shape)] = l.in
            THEN [ok |-> TRUE,
                  shape |-> [i \in 1..Len(s.shape) |->
                               IF i = Len(s.shape) THEN l.out ELSE s.shape[i]]]
            ELSE NoShape
       ELSE s

RECURSIVE ForwardShape(_, _)
ForwardShape(layers, s) ==
  IF layers = << >> THEN s
  ELSE CHOOSE r \in { ForwardShape(Tail(layers), x) :
                        x \in { LayerShape(Head(layers), s) } } : TRUE

\* what the last layer makes of the scores
\* (LogSoftmax over dim 1 normalises each row, i.e. each image's scores)
OutputKind(layers) ==
  LET l == layers[Len(layers)]
  IN IF l.kind = "LogSoftmax"
     THEN IF l.in = 1 THEN "logprob" ELSE "logprob over the batch"
     ELSE "logits"

\* tensor.view(shape[0], -1): keep the batch dimension, flatten the rest
RECURSIVE Product(_)
Product(s) == IF s = << >> THEN 1 ELSE Head(s) * Product(Tail(s))

\* view(-1, 28): the rows of every image become rows of the matrix
FlattenToRows(shape) == << Product(shape) \div Side, Side >>

Flatten(shape) == << shape[1], Product(Tail(shape)) >>

\* a batch of b MNIST images as the loader yields it
ImageShape(b) == << b, 1, Side, Side >>

(* ------------------------------------------------------------------ *)
(* The code cells                                                      *)
(* ------------------------------------------------------------------ *)
\* One statement: what it does, its line, a name argument, a numeric
\* argument, where control goes next (0: the following statement; for a
\* `for`: where it goes when the iteration is exhausted), the names it
\* reads and the names it binds.
S(op, line, a, k, n, reads, writes) ==
  [op |-> op, line |-> line, a |-> a, k |-> k, n |-> n,
   reads |-> reads, writes |-> writes]

\* names bound by the import cell (lines 82-93), which has run in Init
ImportNames ==
  {"torch", "nn", "F", "datasets", "transforms", "transform", "trainset",
   "trainloader"}

XentCell ==
  << S("build", 120, "XentNet", 0, 0, {"nn"}, {"model"}),
     S("criterion", 127, "CrossEntropyLoss", 0, 0, {"nn"}, {"criterion"}),
     S("next_batch", 130, "", 0, 0, {"trainloader"}, {"images", "labels"}),
     S("flatten", 133, "", 0, 0, {"images"}, {"images"}),
     S("forward", 136, "logits", 0, 0, {"model", "images"}, {"logits"}),
     S("loss", 140, "logits", 0, 0, {"criterion", "logits", "labels"}, {"loss"}),
     S("print", 142, "", 0, 0, {"loss"}, {}) >>

NllCell ==
  << S("build", 169, "NllNet", 0, 0, {"nn"}, {"model"}),
     S("criterion", 177, "NLLLoss", 0, 0, {"nn"}, {"criterion"}),
     S("next_batch", 181, "", 0, 0, {"trainloader"}, {"images", "labels"}),
     S("flatten", 184, "", 0, 0, {"images"}, {"images"}),
     S("forward", 187, "logits", 0, 0, {"model", "images"}, {"logits"}),
     S("loss", 190, "logits", 0, 0, {"criterion", "logits", "labels"}, {"loss"}),
     S("print", 191, "", 0, 0, {"loss"}, {}) >>

XCell ==
  << S("randn", 231, "", 0, 0, {"torch"}, {"x"}),
     S("print", 232, "", 0, 0, {"x"}, {}) >>

YCell ==
  << S("square", 250, "", 0, 0, {"x"}, {"y"}),
     S("print", 251, "", 0, 0, {"y"}, {}) >>

GradFnCell ==
  << S("print", 276, "", 0, 0, {"y"}, {}) >>

ZCell ==
  << S("mean", 300, "", 0, 0, {"y"}, {"z"}),
     S("print", 301, "", 0, 0, {"z"}, {}) >>

XGradCell ==
  << S("print", 325, "", 0, 0, {"x"}, {}) >>

ZBackwardCell ==
  << S("z_backward", 356, "", 0, 0, {"z"}, {}),
     S("print", 357, "", 0, 0, {"x"}, {}),
     S("print", 358, "", 0, 0, {"x"}, {}) >>

\* the cell without its `criterion = nn.NLLLoss()`
AutogradCellNoCriterion ==
  << S("build", 392, "AutogradNet", 0, 0, {"nn"}, {"model"}),
     S("next_batch", 399, "", 0, 0, {"trainloader"}, {"images", "labels"}),
     S("flatten", 401, "", 0, 0, {"images"}, {"images"}),
     S("forward", 405, "logits", 0, 0, {"model", "images"}, {"logits"}),
     S("loss", 407, "logits", 0, 0, {"criterion", "logits", "labels"}, {"loss"}),
     S("print", 408, "", 0, 0, {"loss"}, {}) >>

AutogradCell ==
  << S("build", 392, "AutogradNet", 0, 0, {"nn"}, {"model"}),
     S("next_batch", 399, "", 0, 0, {"trainloader"}, {"images", "labels"}),
     S("flatten", 401, "", 0, 0, {"images"}, {"images"}),
     S("criterion", 403, "NLLLoss", 0, 0, {"nn"}, {"criterion"}),
     S("forward", 405, "logits", 0, 0, {"model", "images"}, {"logits"}),
     S("loss", 407, "logits", 0, 0, {"criterion", "logits", "labels"}, {"loss"}),
     S("print", 408, "", 0, 0, {"loss"}, {}) >>

BackwardCell ==
  << S("print", 440, "", 0, 0, {"model"}, {}),
     S("backward", 442, "", 0, 0, {"loss"}, {}),
     S("print", 444, "", 0, 0, {"model"}, {}) >>

OptimizerCell ==
  << S("import", 462, "", 0, 0, {}, {"optim"}),
     S("optimizer", 465, "", LrDemo, 0, {"optim", "model"}, {"optimizer"}) >>

\* the demo without its loss.backward()
StepDemoCellNoBackward ==
  << S("print", 511, "", 0, 0, {"model"}, {}),
     S("next_batch", 513, "", 0, 0, {"trainloader"}, {"images", "labels"}),
     S("resize", 514, "", 0, 0, {"images"}, {}),
     S("zero_grad", 517, "", 0, 0, {"optimizer"}, {}),
     S("forward", 520, "output", 0, 0, {"model", "images"}, {"output"}),
     S("loss", 521, "output", 0, 0, {"criterion", "output", "labels"}, {"loss"}),
     S("print", 523, "", 0, 0, {"model"}, {}) >>

\* the demo without its optimizer.zero_grad()
StepDemoCellNoZeroGrad ==
  << S("print", 511, "", 0, 0, {"model"}, {}),
     S("next_batch", 513, "", 0, 0, {"trainloader"}, {"images", "labels"}),
     S("resize", 514, "", 0, 0, {"images"}, {}),
     S("forward", 520, "output", 0, 0, {"model", "images"}, {"output"}),
     S("loss", 521, "output", 0, 0, {"criterion", "output", "labels"}, {"loss"}),
     S("backward", 522, "", 0, 0, {"loss"}, {}),
     S("print", 523, "", 0, 0, {"model"}, {}) >>

StepDemoCell ==
  << S("print", 511, "", 0, 0, {"model"}, {}),
     S("next_batch", 513, "", 0, 0, {"trainloader"}, {"images", "labels"}),
     S("resize", 514, "", 0, 0, {"images"}, {}),
     S("zero_grad", 517, "", 0, 0, {"optimizer"}, {}),
     S("forward", 520, "output", 0, 0, {"model", "images"}, {"output"}),
     S("loss", 521, "output", 0, 0, {"criterion", "output", "labels"}, {"loss"}),
     S("backward", 522, "", 0, 0, {"loss"}, {}),
     S("print", 523, "", 0, 0, {"model"}, {}) >>

UpdateCell ==
  << S("step", 549, "", 0, 0, {"optimizer"}, {}),
     S("print", 550, "", 0, 0, {"model"}, {}) >>

\* the loop with the gradient reset moved behind the parameter step
TrainCellResetLast ==
  << S("build", 589, "TrainNet", 0, 0, {"nn"}, {"model"}),
     S("criterion", 597, "NLLLoss", 0, 0, {"nn"}, {"criterion"}),
     S("optimizer", 598, "", LrTrain, 0, {"optim", "model"}, {"optimizer"}),
     S("epochs", 600, "", Epochs, 0, {}, {"epochs"}),
     S("for_epoch", 602, "", 0, 16, {"epochs"}, {"epoch"}),
     S("reset_running", 604, "", 0, 0, {}, {"running_loss"}),
     S("for_batch", 605, "", 0, 15, {"trainloader"}, {"images", "labels"}),
     S("flatten", 607, "", 0, 0, {"images"}, {"images"}),
     S("forward", 613, "logits", 0, 0, {"model", "images"}, {"logits"}),
     S("loss", 616, "logits", 0, 0, {"criterion", "logits", "labels"}, {"loss"}),
     S("backward", 619, "", 0, 0, {"loss"}, {}),
     S("step", 622, "", 0, 0, {"optimizer"}, {}),
     S("zero_grad", 610, "", 0, 0, {"optimizer"}, {}),
     S("accumulate", 624, "", 0, 7, {"running_loss", "loss"}, {"running_loss"}),
     S("print_loss", 627, "", 0, 5, {"running_loss", "trainloader"}, {}) >>

\* the loop with `running_loss += loss.item()` dedented out of the batch
\* loop, into its else branch
TrainCellAccumulateOutside ==
  << S("build", 589, "TrainNet", 0, 0, {"nn"}, {"model"}),
     S("criterion", 597, "NLLLoss", 0, 0, {"nn"}, {"criterion"}),
     S("optimizer", 598, "", LrTrain, 0, {"optim", "model"}, {"optimizer"}),
     S("epochs", 600, "", Epochs, 0, {}, {"epochs"}),
     S("for_epoch", 602, "", 0, 16, {"epochs"}, {"epoch"}),
     S("reset_running", 604, "", 0, 0, {}, {"running_loss"}),
     S("for_batch", 605, "", 0, 14, {"trainloader"}, {"images", "labels"}),
     S("flatten", 607, "", 0, 0, {"images"}, {"images"}),
     S("zero_grad", 610, "", 0, 0, {"optimizer"}, {}),
     S("forward", 613, "logits", 0, 0, {"model", "images"}, {"logits"}),
     S("loss", 616, "logits", 0, 0, {"criterion", "logits", "labels"}, {"loss"}),
     S("backward", 619, "", 0, 0, {"loss"}, {}),
     S("step", 622, "", 0, 7, {"optimizer"}, {}),
     S("accumulate", 624, "", 0, 0, {"running_loss", "loss"}, {"running_loss"}),
     S("print_loss", 627, "", 0, 5, {"running_loss", "trainloader"}, {}) >>

\* the loop body ending in a `break`: the rest of the batches and the else
\* branch with the print are skipped
TrainCellBreaks ==
  << S("build", 589, "TrainNet", 0, 0, {"nn"}, {"model"}),
     S("criterion", 597, "NLLLoss", 0, 0, {"nn"}, {"criterion"}),
     S("optimizer", 598, "", LrTrain, 0, {"optim", "model"}, {"optimizer"}),
     S("epochs", 600, "", Epochs, 0, {}, {"epochs"}),
     S("for_epoch", 602, "", 0, 16, {"epochs"}, {"epoch"}),
     S("reset_running", 604, "", 0, 0, {}, {"running_loss"}),
     S("for_batch", 605, "", 0, 15, {"trainloader"}, {"images", "labels"}),
     S("flatten", 607, "", 0, 0, {"images"}, {"images"}),
     S("zero_grad", 610, "", 0, 0, {"optimizer"}, {}),
     S("forward", 613, "logits", 0, 0, {"model", "images"}, {"logits"}),
     S("loss", 616, "logits", 0, 0, {"criterion", "logits", "labels"}, {"loss"}),
     S("backward", 619, "", 0, 0, {"loss"}, {}),
     S("step", 622, "", 0, 0, {"optimizer"}, {}),
     S("accumulate", 624, "", 0, 5, {"running_loss", "loss"}, {"running_loss"}),
     S("print_loss", 627, "", 0, 5, {"running_loss", "trainloader"}, {}) >>

\* the loop with `running_loss = 0` placed before the epoch loop
TrainCellResetOnce ==
  << S("build", 589, "TrainNet", 0, 0, {"nn"}, {"model"}),
     S("criterion", 597, "NLLLoss", 0, 0, {"nn"}, {"criterion"}),
     S("optimizer", 598, "", LrTrain, 0, {"optim", "model"}, {"optimizer"}),
     S("epochs", 600, "", Epochs, 0, {}, {"epochs"}),
     S("reset_running", 604, "", 0, 0, {}, {"running_loss"}),
     S("for_epoch", 602, "", 0, 16, {"epochs"}, {"epoch"}),
     S("for_batch", 605, "", 0, 15, {"trainloader"}, {"images", "labels"}),
     S("flatten", 607, "", 0, 0, {"images"}, {"images"}),
     S("zero_grad", 610, "", 0, 0, {"optimizer"}, {}),
     S("forward", 613, "logits", 0, 0, {"model", "images"}, {"logits"}),
     S("loss", 616, "logits", 0, 0, {"criterion", "logits", "labels"}, {"loss"}),
     S("backward", 619, "", 0, 0, {"loss"}, {}),
     S("step", 622, "", 0, 0, {"optimizer"}, {}),
     S("accumulate", 624, "", 0, 7, {"running_loss", "loss"}, {"running_loss"}),
     S("print_loss", 627, "", 0, 6, {"running_loss", "trainloader"}, {}) >>

TrainCell ==
  << S("build", 589, "TrainNet", 0, 0, {"nn"}, {"model"}),
     S("criterion", 597, "NLLLoss", 0, 0, {"nn"}, {"criterion"}),
     S("optimizer", 598, "", LrTrain, 0, {"optim", "model"}, {"optimizer"}),
     S("epochs", 600, "", Epochs, 0, {}, {"epochs"}),
     S("for_epoch", 602, "", 0, 16, {"epochs"}, {"epoch"}),
     S("reset_running", 604, "", 0, 0, {}, {"running_loss"}),
     S("for_batch", 605, "", 0, 15, {"trainloader"}, {"images", "labels"}),
     S("flatten", 607, "", 0, 0, {"images"}, {"images"}),
     S("zero_grad", 610, "", 0, 0, {"optimizer"}, {}),
     S("forward", 613, "logits", 0, 0, {"model", "images"}, {"logits"}),
     S("loss", 616, "logits", 0, 0, {"criterion", "logits", "labels"}, {"loss"}),
     S("backward", 619, "", 0, 0, {"loss"}, {}),
     S("step", 622, "", 0, 0, {"optimizer"}, {}),
     S("accumulate", 624, "", 0, 7, {"running_loss", "loss"}, {"running_loss"}),
     S("print_loss", 627, "", 0, 5, {"running_loss", "trainloader"}, {}) >>

\* the cell without its own `next(iter(trainloader))`: it takes the image
\* from the batch the training loop left in `images`
PredictCellReusesImages ==
  << S("import", 657, "", 0, 0, {}, {"helper"}),
     S("index_view", 661, "", 0, 0, {"images"}, {"img"}),
     S("forward_no_grad", 664, "logps", 0, 0, {"torch", "model", "img"}, {"logps"}),
     S("exp", 667, "", 0, 0, {"torch", "logps"}, {"ps"}),
     S("print", 668, "", 0, 0, {"helper", "img", "ps"}, {}) >>

PredictCell ==
  << S("import", 657, "", 0, 0, {}, {"helper"}),
     S("next_batch", 659, "", 0, 0, {"trainloader"}, {"images", "labels"}),
     S("index_view", 661, "", 0, 0, {"images"}, {"img"}),
     S("forward_no_grad", 664, "logps", 0, 0, {"torch", "model", "img"}, {"logps"}),
     S("exp", 667, "", 0, 0, {"torch", "logps"}, {"ps"}),
     S("print", 668, "", 0, 0, {"helper", "img", "ps"}, {}) >>

\* the code cells after the import cell, in the order of the file
Notebook ==
  << "xent", "nll", "x", "y", "grad_fn", "z", "x_grad", "z_backward",
     "autograd", "backward", "optimizer", "step_demo", "update", "train",
     "predict" >>

Code(c) ==
  CASE c = "xent" -> XentCell
    [] c = "nll" -> NllCell
    [] c = "x" -> XCell
    [] c = "y" -> YCell
    [] c = "grad_fn" -> GradFnCell
    [] c = "z" -> ZCell
    [] c = "x_grad" -> XGradCell
    [] c = "z_backward" -> ZBackwardCell
    [] c = "autograd" -> AutogradCell
    [] c = "backward" -> BackwardCell
    [] c = "optimizer" -> OptimizerCell
    [] c = "step_demo" -> StepDemoCell
    [] c = "update" -> UpdateCell
    [] c = "train" -> TrainCell
    [] OTHER -> PredictCell

Names ==
  ImportNames \cup
  {"model", "criterion", "images", "labels", "logits", "loss", "x", "y", "z",
   "optim", "optimizer", "output", "epochs", "epoch", "running_loss",
   "helper", "img", "logps", "ps"}

(* ------------------------------------------------------------------ *)
(* State                                                               *)
(* ------------------------------------------------------------------ *)
VARIABLES
  cell,        \* the cell being executed, or "idle"
  pc,          \* the statement of that cell to execute next
  ran,         \* how many cells have been started
  err,         \* the exception that ended the last cell, if any
  ns,          \* the kernel namespace: the value of each Python variable
  definedIn,   \* for each name, the cell that bound it last, or "unbound"
  crossReads,  \* names read in a cell other than the one that bound them
  heap,        \* the nn.Sequential objects alive, by identity
  iter,        \* the for loops of the running cell: epochs begun, and
               \* batches drawn from the loader in the current epoch
  passOps,     \* the operations of the training pass in progress
  prevPass,    \* the operations of the pass before it
  stdout,      \* the output area of the training cell: how many lines it
               \* shows, the last one, and whether that is lower than the
               \* line before it
  reader,      \* the reading of the journal: the document open, the lines
               \* read, the tallies and the days and dates met so far
  lastStep     \* what the last optimizer.step() found and did: the object
               \* it updated, its weight before and after, its gradient, the
               \* backward passes since its previous step, and the loss (its
               \* tag, graph and gradient) that `loss` named

vars ==
  << cell, pc, ran, err, ns, definedIn, crossReads, heap, iter, passOps,
     prevPass, stdout, lastStep, reader >>

NoGrad == [set |-> FALSE, val |-> 0, srcs |-> << >>]

\* a slot of the heap whose object is no longer referenced
FreedNet ==
  [layers |-> << >>, w |-> 0, grad |-> NoGrad, steps |-> 0, back |-> 0,
   by |-> "freed"]

NoTensor ==
  [shape |-> << >>, kind |-> "none", net |-> 0, t |-> 0, w |-> 0,
   rg |-> FALSE, by |-> "none", steps |-> 0]

NoLoss ==
  [val |-> 0, net |-> 0, g |-> 0, alive |-> FALSE, tag |-> << >>,
   crit |-> "none", given |-> "none", shape |-> << >>, n |-> 0]

\* no line of the journal read yet
NoItem == [kind |-> "none"]

\* no document open: nothing read, nothing tallied
Closed(done) ==
  [doc |-> "none", pos |-> 0, last |-> NoItem, correct |-> 0, total |-> 0,
   classes |-> 0, covered |-> << >>, dates |-> << >>, done |-> done]

\* a running sum: its value, and the losses (tag and value) added to it
\* since it was last assigned
NoSum == [val |-> 0, of |-> << >>]

NoErr == [kind |-> "none", cell |-> "none", line |-> 0]

Ratio(a, b) == [num |-> a, den |-> b]

\* a / b < c / d for positive denominators
Less(p, q) == p.num * q.den < q.num * p.den

\* a recording in which the loss of the fifth epoch went up
RecordedOutputDiverged ==
  << Ratio(22204, 10000), Ratio(19394, 10000), Ratio(14822, 10000),
     Ratio(10869, 10000), Ratio(14822, 10000), Ratio(7033, 10000),
     Ratio(6149, 10000), Ratio(5546, 10000), Ratio(5097, 10000),
     Ratio(4752, 10000) >>

\* the ten "Training loss" lines stored with the training cell, to four
\* decimal places
RecordedOutput ==
  << Ratio(22204, 10000), Ratio(19394, 10000), Ratio(14822, 10000),
     Ratio(10869, 10000), Ratio(8457, 10000), Ratio(7033, 10000),
     Ratio(6149, 10000), Ratio(5546, 10000), Ratio(5097, 10000),
     Ratio(4752, 10000) >>

\* values torch.randn(2, 2) may return, row by row
XValues == { << 2, 4, -2, 0 >>, << 1, -3, 0, 6 >> }

NoX == [gen |-> 0, v |-> << >>, grad |-> [set |-> FALSE, twice |-> << >>]]
NoY == [gen |-> 0, v |-> << >>, xv |-> << >>]
NoZ == [gen |-> 0, sum |-> 0, n |-> 1, xv |-> << >>, alive |-> FALSE]

Init ==
  /\ cell = "idle"
  /\ pc = 1
  /\ ran = 0
  /\ err = NoErr
  /\ ns = [model |-> 0, criterion |-> "none",
           optimizer |-> [params |-> 0, lr |-> 0],
           images |-> [shape |-> << >>, t |-> 0],
           labels |-> [n |-> 0, t |-> 0],
           img |-> [shape |-> << >>, t |-> 0],
           logits |-> NoTensor, output |-> NoTensor, logps |-> NoTensor,
           ps |-> [shape |-> << >>, kind |-> "none"],
           loss |-> NoLoss, running_loss |-> NoSum, epoch |-> 0, epochs |-> 0,
           x |-> NoX, y |-> NoY, z |-> NoZ]
  /\ definedIn = [v \in Names |-> IF v \in ImportNames THEN "imports" ELSE "unbound"]
  /\ crossReads = {}
  /\ heap = << >>
  /\ iter = [epoch |-> 0, batch |-> 0]
  /\ passOps = << >>
  /\ prevPass = << >>
  /\ stdout = [shown |-> "recorded", n |-> Len(RecordedOutput),
               last |-> RecordedOutput[Len(RecordedOutput)],
               lower |-> Less(RecordedOutput[Len(RecordedOutput)],
                              RecordedOutput[Len(RecordedOutput) - 1])]
  /\ lastStep = [valid |-> FALSE, net |-> 0, lr |-> 0, before |-> 0,
                 after |-> 0, grad |-> NoGrad, back |-> 0, tag |-> << >>,
                 lossNet |-> 0, g |-> 0]
  /\ reader = Closed({})

(* ------------------------------------------------------------------ *)
(* The interpreter's view of the current statement                     *)
(* ------------------------------------------------------------------ *)
Running == cell # "idle"

Cur == Code(cell)[pc]

Unbound(st) == {v \in st.reads : definedIn[v] = "unbound"}

\* the objects some variable still refers to: a tensor that requires grad
\* and a loss hold their graph, and the graph holds the parameters
Refs(n) ==
  {n.model, n.optimizer.params, n.logits.net, n.output.net, n.logps.net,
   n.loss.net} \ {0}

SetSlot(h, i, obj) ==
  [j \in 1..(IF i > Len(h) THEN i ELSE Len(h)) |-> IF j = i THEN obj ELSE h[j]]

\* reference counting: an object nothing refers to is freed at once
Collect(h, n) == [j \in 1..Len(h) |-> IF j \in Refs(n) THEN h[j] ELSE FreedNet]

FreeSlot(h, n) == CHOOSE i \in 1..(Len(h) + 1) :
                    /\ i \notin Refs(n)
                    /\ \A j \in 1..(i - 1) : j \in Refs(n)

\* the tag of the loss computed by the current statement
Tag == IF cell = "train" THEN << Cur.line, ns.epoch, iter.batch >>
       ELSE << Cur.line, 0, 0 >>

\* a library call that raises in the current state: backward through a
\* graph whose buffers an earlier backward freed, a layer or loss given the
\* wrong shape
LibraryError(st) ==
  CASE st.op = "backward" -> ~ns.loss.alive
    [] st.op = "z_backward" -> ~ns.z.alive
    [] st.op = "forward" ->
         ~ForwardShape(heap[ns.model].layers,
                       [ok |-> TRUE, shape |-> ns.images.shape]).ok
    [] st.op = "forward_no_grad" ->
         ~ForwardShape(heap[ns.model].layers,
                       [ok |-> TRUE, shape |-> ns.img.shape]).ok
    [] st.op = "loss" -> ns[st.a].shape # << ns.labels.n, Classes >>
    [] st.op = "index_view" -> Product(Tail(ns.images.shape)) # Pixels
    [] OTHER -> FALSE

\* the statement `op` is next and executes normally
At(op) ==
  /\ Running
  /\ Cur.op = op
  /\ Unbound(Cur) = {}
  /\ ~LibraryError(Cur)

\* control moves on; the cell ends after its last statement
Goto(target) ==
  /\ pc' = target
  /\ cell' = IF target > Len(Code(cell)) THEN "idle" ELSE cell

\* the bookkeeping every executed statement shares
Bind ==
  /\ definedIn' = [v \in Names |-> IF v \in Cur.writes THEN cell ELSE definedIn[v]]
  /\ crossReads' = crossReads \cup {v \in Cur.reads : definedIn[v] # cell}
  /\ UNCHANGED << ran, err, reader >>

Advance ==
  /\ Goto(IF Cur.n = 0 THEN pc + 1 ELSE Cur.n)
  /\ Bind

\* a step of a training pass is logged
Log(op) == passOps' = Append(passOps, op) /\ UNCHANGED prevPass

(* ------------------------------------------------------------------ *)
(* Statements                                                          *)
(* ------------------------------------------------------------------ *)
\* a constructor that gives every parameter a zero gradient tensor
BuildWithGrads ==
  /\ At("build")
  /\ \E w0 \in InitWeights :
       LET rest == [ns EXCEPT !.model = 0]
           id == FreeSlot(heap, rest)
           obj == [layers |-> NetOf(Cur.a), w |-> w0,
                   grad |-> [set |-> TRUE, val |-> 0, srcs |-> << >>],
                   steps |-> 0, back |-> 0, by |-> cell]
           n2 == [ns EXCEPT !.model = id]
       IN /\ ns' = n2
          /\ heap' = Collect(SetSlot(heap, id, obj), n2)
  /\ Advance
  /\ UNCHANGED << iter, passOps, prevPass, stdout, lastStep >>

\* model = nn.Sequential(...): a new object with freshly drawn weights
Build ==
  /\ At("build")
  /\ \E w0 \in InitWeights :
       LET rest == [ns EXCEPT !.model = 0]
           id == FreeSlot(heap, rest)
           obj == [layers |-> NetOf(Cur.a), w |-> w0, grad |-> NoGrad,
                   steps |-> 0, back |-> 0, by |-> cell]
           n2 == [ns EXCEPT !.model = id]
       IN /\ ns' = n2
          /\ heap' = Collect(SetSlot(heap, id, obj), n2)
  /\ Advance
  /\ UNCHANGED << iter, passOps, prevPass, stdout, lastStep >>

\* criterion = nn.CrossEntropyLoss() or nn.NLLLoss()
Criterion ==
  /\ At("criterion")
  /\ ns' = [ns EXCEPT !.criterion = Cur.a]
  /\ Advance
  /\ UNCHANGED << heap, iter, passOps, prevPass, stdout, lastStep >>

\* images, labels = next(iter(trainloader)): the first batch of a new shuffle
NextBatch ==
  /\ At("next_batch")
  /\ \E t \in Targets :
       ns' = [ns EXCEPT !.images = [shape |-> ImageShape(BatchSize), t |-> t],
                        !.labels = [n |-> BatchSize, t |-> t]]
  /\ passOps' = << >>
  /\ Advance
  /\ UNCHANGED << heap, iter, prevPass, stdout, lastStep >>

\* images = images.view(images.shape[0], -1)
FlattenImages ==
  /\ At("flatten")
  /\ ns' = [ns EXCEPT !.images.shape = Flatten(ns.images.shape)]
  /\ Log("flatten")
  /\ Advance
  /\ UNCHANGED << heap, iter, stdout, lastStep >>

\* images.resize_(64, 784)
Resize ==
  /\ At("resize")
  /\ ns' = [ns EXCEPT !.images.shape = << BatchSize, Pixels >>]
  /\ Log("resize")
  /\ Advance
  /\ UNCHANGED << heap, iter, stdout, lastStep >>

\* optimizer.zero_grad(): the gradients of the optimizer's parameters that
\* exist are set to zero
ZeroGrad ==
  /\ At("zero_grad")
  /\ LET id == ns.optimizer.params
     IN heap' = [heap EXCEPT ![id].grad =
                   IF @.set THEN [set |-> TRUE, val |-> 0, srcs |-> << >>] ELSE @]
  /\ Log("zero_grad")
  /\ Advance
  /\ UNCHANGED << ns, iter, stdout, lastStep >>

\* logits = model(images) or output = model(images)
Forward ==
  /\ At("forward")
  /\ LET net == heap[ns.model]
         out == [shape |-> ForwardShape(net.layers,
                             [ok |-> TRUE, shape |-> ns.images.shape]).shape,
                 kind |-> OutputKind(net.layers), net |-> ns.model,
                 t |-> ns.images.t, w |-> net.w, rg |-> TRUE,
                 by |-> net.by, steps |-> net.steps]
         n2 == [ns EXCEPT ![Cur.a] = out]
     IN /\ ns' = n2
        /\ heap' = Collect(heap, n2)
  /\ Log("forward")
  /\ Advance
  /\ UNCHANGED << iter, stdout, lastStep >>

\* loss = criterion(logits, labels): a scalar, with the graph that made it
Loss ==
  /\ At("loss")
  /\ LET o == ns[Cur.a]
         l == [val |-> Abs(o.w - ns.labels.t), net |-> o.net,
               g |-> Sign(o.w - ns.labels.t), alive |-> TRUE, tag |-> Tag,
               crit |-> ns.criterion, given |-> o.kind, shape |-> << >>,
               n |-> ns.labels.n]
         n2 == [ns EXCEPT !.loss = l]
     IN /\ ns' = n2
        /\ heap' = Collect(heap, n2)
  /\ Log("loss")
  /\ Advance
  /\ UNCHANGED << iter, stdout, lastStep >>

\* loss.backward(): the gradient of this loss is added to what each
\* parameter of its graph already holds, and the graph's buffers are freed
Backward ==
  /\ At("backward")
  /\ LET l == ns.loss
     IN /\ heap' = [heap EXCEPT
                      ![l.net].grad =
                         IF @.set
                         THEN [set |-> TRUE, val |-> @.val + l.g,
                               srcs |-> Append(@.srcs, l.tag)]
                         ELSE [set |-> TRUE, val |-> l.g, srcs |-> << l.tag >>],
                      ![l.net].back = @ + 1]
        /\ ns' = [ns EXCEPT !.loss.alive = FALSE]
  /\ Log("backward")
  /\ Advance
  /\ UNCHANGED << iter, stdout, lastStep >>

\* a step up the gradient instead of down
SgdAscent(w, lr, grad) == IF grad.set THEN w + lr * grad.val ELSE w

\* SGD: W' = W - lr * grad for every parameter that has a gradient
SgdUpdate(w, lr, grad) == IF grad.set THEN w - lr * grad.val ELSE w

\* optimizer.step()
Step ==
  /\ At("step")
  /\ LET id == ns.optimizer.params
         o == heap[id]
         w2 == SgdUpdate(o.w, ns.optimizer.lr, o.grad)
     IN /\ heap' = [heap EXCEPT ![id].w = w2, ![id].steps = @ + 1,
                                ![id].back = 0]
        /\ lastStep' = [valid |-> TRUE, net |-> id, lr |-> ns.optimizer.lr,
                        before |-> o.w, after |-> w2, grad |-> o.grad,
                        back |-> o.back, tag |-> ns.loss.tag,
                        lossNet |-> ns.loss.net, g |-> ns.loss.g]
  /\ Log("step")
  /\ Advance
  /\ UNCHANGED << ns, iter, stdout >>

\* from torch import optim, import helper
Import ==
  /\ At("import")
  /\ Advance
  /\ UNCHANGED << ns, heap, iter, passOps, prevPass, stdout, lastStep >>

\* optimizer = optim.SGD(model.parameters(), lr=...)
Optimizer ==
  /\ At("optimizer")
  /\ LET n2 == [ns EXCEPT !.optimizer = [params |-> ns.model, lr |-> Cur.k]]
     IN /\ ns' = n2
        /\ heap' = Collect(heap, n2)
  /\ Advance
  /\ UNCHANGED << iter, passOps, prevPass, stdout, lastStep >>

\* print(...) and helper.view_classify(...): nothing is bound or changed
Show ==
  /\ At("print")
  /\ Advance
  /\ UNCHANGED << ns, heap, iter, passOps, prevPass, stdout, lastStep >>

(* ---- the training cell's loops ---- *)
\* epochs = 10
SetEpochs ==
  /\ At("epochs")
  /\ ns' = [ns EXCEPT !.epochs = Cur.k]
  /\ Advance
  /\ UNCHANGED << heap, iter, passOps, prevPass, stdout, lastStep >>

\* for epoch in range(epochs):
ForEpoch ==
  /\ At("for_epoch")
  /\ IF iter.epoch < ns.epochs
     THEN /\ ns' = [ns EXCEPT !.epoch = iter.epoch]
          /\ iter' = [epoch |-> iter.epoch + 1, batch |-> 0]
          /\ Goto(pc + 1)
     ELSE /\ UNCHANGED << ns, iter >>
          /\ Goto(Cur.n)
  /\ Bind
  /\ UNCHANGED << heap, passOps, prevPass, stdout, lastStep >>

\* running_loss = 0
ResetRunning ==
  /\ At("reset_running")
  /\ ns' = [ns EXCEPT !.running_loss = NoSum]
  /\ Advance
  /\ UNCHANGED << heap, iter, passOps, prevPass, stdout, lastStep >>

\* for images, labels in trainloader: ... else: ...
ForBatch ==
  /\ At("for_batch")
  /\ IF iter.batch < NumBatches
     THEN /\ \E t \in Targets :
               LET b == IF iter.batch + 1 = NumBatches THEN LastBatchSize
                        ELSE BatchSize
               IN ns' = [ns EXCEPT !.images = [shape |-> ImageShape(b), t |-> t],
                                   !.labels = [n |-> b, t |-> t]]
          /\ iter' = [iter EXCEPT !.batch = @ + 1]
          /\ prevPass' = passOps
          /\ passOps' = << >>
          /\ Goto(pc + 1)
     ELSE /\ UNCHANGED << ns, iter, passOps, prevPass >>
          /\ Goto(Cur.n)
  /\ Bind
  /\ UNCHANGED << heap, stdout, lastStep >>

\* running_loss += loss.item()
Accumulate ==
  /\ At("accumulate")
  /\ ns' = [ns EXCEPT !.running_loss =
                      [val |-> @.val + ns.loss.val,
                       of |-> Append(@.of, << ns.loss.tag, ns.loss.val >>)]]
  /\ Log("accumulate")
  /\ Advance
  /\ UNCHANGED << heap, iter, stdout, lastStep >>

\* print(f"Training loss: {running_loss/len(trainloader)}")
PrintLoss ==
  /\ At("print_loss")
  /\ LET avg == Ratio(ns.running_loss.val, NumBatches)
     IN stdout' = [shown |-> "run", n |-> stdout.n + 1, last |-> avg,
                   lower |-> IF stdout.n = 0 THEN TRUE
                             ELSE Less(avg, stdout.last)]
  /\ Advance
  /\ UNCHANGED << ns, heap, iter, passOps, prevPass, lastStep >>

(* ---- the prediction cell ---- *)
\* img = images[0].view(1, 784)
IndexView ==
  /\ At("index_view")
  /\ ns' = [ns EXCEPT !.img = [shape |-> << 1, Product(Tail(ns.images.shape)) >>,
                               t |-> ns.images.t]]
  /\ Advance
  /\ UNCHANGED << heap, iter, passOps, prevPass, stdout, lastStep >>

\* logps = model(img) outside torch.no_grad(): the result is part of a
\* graph that reaches the parameters
ForwardTracked ==
  /\ At("forward_no_grad")
  /\ LET net == heap[ns.model]
         out == [shape |-> ForwardShape(net.layers,
                             [ok |-> TRUE, shape |-> ns.img.shape]).shape,
                 kind |-> OutputKind(net.layers), net |-> ns.model,
                 t |-> ns.img.t, w |-> net.w, rg |-> TRUE,
                 by |-> net.by, steps |-> net.steps]
         n2 == [ns EXCEPT ![Cur.a] = out]
     IN /\ ns' = n2
        /\ heap' = Collect(heap, n2)
  /\ Advance
  /\ UNCHANGED << iter, passOps, prevPass, stdout, lastStep >>

\* with torch.no_grad(): logps = model(img)
ForwardNoGrad ==
  /\ At("forward_no_grad")
  /\ LET net == heap[ns.model]
         out == [shape |-> ForwardShape(net.layers,
                             [ok |-> TRUE, shape |-> ns.img.shape]).shape,
                 kind |-> OutputKind(net.layers), net |-> 0,
                 t |-> ns.img.t, w |-> net.w, rg |-> FALSE,
                 by |-> net.by, steps |-> net.steps]
         n2 == [ns EXCEPT ![Cur.a] = out]
     IN /\ ns' = n2
        /\ heap' = Collect(heap, n2)
  /\ Advance
  /\ UNCHANGED << iter, passOps, prevPass, stdout, lastStep >>

\* ps = torch.exp(logps)
Exp ==
  /\ At("exp")
  /\ ns' = [ns EXCEPT !.ps = [shape |-> ns.logps.shape,
                              kind |-> IF ns.logps.kind = "logprob"
                                       THEN "prob" ELSE "exp(logits)"]]
  /\ Advance
  /\ UNCHANGED << heap, iter, passOps, prevPass, stdout, lastStep >>

(* ---- the autograd cells ---- *)
\* x = torch.randn(2, 2, requires_grad=True)
Randn ==
  /\ At("randn")
  /\ \E v \in XValues :
       ns' = [ns EXCEPT !.x = [gen |-> ran, v |-> v,
                               grad |-> [set |-> FALSE, twice |-> << >>]]]
  /\ Advance
  /\ UNCHANGED << heap, iter, passOps, prevPass, stdout, lastStep >>

\* y = x**2
Square ==
  /\ At("square")
  /\ ns' = [ns EXCEPT !.y = [gen |-> ns.x.gen,
                             v |-> [i \in 1..Len(ns.x.v) |-> ns.x.v[i] * ns.x.v[i]],
                             xv |-> ns.x.v]]
  /\ Advance
  /\ UNCHANGED << heap, iter, passOps, prevPass, stdout, lastStep >>

RECURSIVE Sum(_)
Sum(s) == IF s = << >> THEN 0 ELSE Head(s) + Sum(Tail(s))

\* z = y.mean()
Mean ==
  /\ At("mean")
  /\ ns' = [ns EXCEPT !.z = [gen |-> ns.y.gen, sum |-> Sum(ns.y.v),
                             n |-> Len(ns.y.v), xv |-> ns.y.xv,
                             alive |-> TRUE]]
  /\ Advance
  /\ UNCHANGED << heap, iter, passOps, prevPass, stdout, lastStep >>

\* twice the gradient of sum(x**2) with respect to x: the 1/n of the mean
\* is lost
TwiceGradOfSum(xv, n) == [i \in 1..Len(xv) |-> 2 * 2 * xv[i]]

\* twice the gradient of mean(x**2) with respect to x: 2 * (2 * x / n)
TwiceGrad(xv, n) == [i \in 1..Len(xv) |-> (2 * 2 * xv[i]) \div n]

\* z.backward(): the gradient reaches the tensor z was computed from, which
\* is the one `x` names unless x was rebound since
ZBackward ==
  /\ At("z_backward")
  /\ LET g == TwiceGrad(ns.z.xv, ns.z.n)
         acc == IF ns.x.grad.set
                THEN [i \in 1..Len(g) |-> ns.x.grad.twice[i] + g[i]]
                ELSE g
     IN ns' = [ns EXCEPT !.z.alive = FALSE,
                         !.x.grad = IF ns.x.gen = ns.z.gen
                                    THEN [set |-> TRUE, twice |-> acc]
                                    ELSE @]
  /\ Advance
  /\ UNCHANGED << heap, iter, passOps, prevPass, stdout, lastStep >>

(* ------------------------------------------------------------------ *)
(* Exceptions: nothing in the notebook catches one                     *)
(* ------------------------------------------------------------------ *)
\* an exception caught inside the loop body: the loop goes on with the
\* next batch
AbortCaught(kind) ==
  /\ cell' = cell
  /\ pc' = 7
  /\ err' = [kind |-> kind, cell |-> cell, line |-> Cur.line]
  /\ UNCHANGED << ran, ns, definedIn, crossReads, heap, iter, passOps,
                  prevPass, stdout, lastStep, reader >>

\* the cell ends where the exception is raised; nothing is undone
Abort(kind) ==
  /\ cell' = "idle"
  /\ err' = [kind |-> kind, cell |-> cell, line |-> Cur.line]
  /\ UNCHANGED << pc, ran, ns, definedIn, crossReads, heap, iter, passOps,
                  prevPass, stdout, lastStep, reader >>

\* a name is read before any cell bound it
RaiseNameError ==
  /\ Running
  /\ Unbound(Cur) # {}
  /\ Abort("NameError")

\* the library rejects the call
RaiseRuntimeError ==
  /\ Running
  /\ Unbound(Cur) = {}
  /\ LibraryError(Cur)
  /\ Abort("RuntimeError")

\* the steps of a training pass that call into the library
PassSteps == {"flatten", "forward", "loss", "backward", "step"}

\* a step of a training pass of the training loop raises
RaiseInPass ==
  /\ Running
  /\ cell = "train"
  /\ Cur.op \in PassSteps
  /\ Unbound(Cur) = {}
  /\ ~LibraryError(Cur)
  /\ Abort("Exception")

(* ------------------------------------------------------------------ *)
(* Running cells                                                       *)
(* ------------------------------------------------------------------ *)
\* the kernel starts executing cell c; a cell's output area is cleared
\* when its execution starts
RunCell(c) ==
  /\ cell = "idle"
  /\ cell' = c
  /\ pc' = 1
  /\ ran' = ran + 1
  /\ err' = NoErr
  /\ iter' = [epoch |-> 0, batch |-> 0]
  /\ stdout' = IF c = "train"
               THEN [shown |-> "run", n |-> 0, last |-> Ratio(0, 1),
                     lower |-> TRUE]
               ELSE stdout
  /\ UNCHANGED << ns, definedIn, crossReads, heap, passOps, prevPass, lastStep,
                  reader >>

\* Run All: the cells one after the other, stopping at the first error
RunNext ==
  /\ ran < Len(Notebook)
  /\ err.kind = "none"
  /\ RunCell(Notebook[ran + 1])

\* interactive use: any cell, in any order, any number of times
ModelCells ==
  << "xent", "nll", "autograd", "backward", "optimizer", "step_demo",
     "update", "train", "predict" >>

RunAny ==
  /\ ran < MaxRuns
  /\ \E i \in 1..Len(ModelCells) : RunCell(ModelCells[i])

Statement ==
  \/ Build \/ Criterion \/ NextBatch \/ FlattenImages \/ Resize \/ ZeroGrad
  \/ Forward \/ Loss \/ Backward \/ Step \/ Import \/ Optimizer \/ Show
  \/ SetEpochs \/ ForEpoch \/ ResetRunning \/ ForBatch \/ Accumulate
  \/ PrintLoss \/ IndexView \/ ForwardNoGrad \/ Exp

AutogradStatement == Randn \/ Square \/ Mean \/ ZBackward

\* the notebook run from top to bottom
Next == RunNext \/ Statement \/ AutogradStatement \/ RaiseInPass

Spec == Init /\ [][Next]_vars

\* the kernel keeps executing the statements of the cell it runs
Terminating == Spec /\ WF_vars(Statement)

\* the notebook used interactively
NextAnyOrder == RunAny \/ Statement \/ RaiseNameError \/ RaiseRuntimeError

AnyOrder == Init /\ [][NextAnyOrder]_vars

(* ------------------------------------------------------------------ *)
(* The journal                                                         *)
(* ------------------------------------------------------------------ *)
\* the lines of the journal that carry data
\* "## Day f:" or "## Day f-l:" with the date, or the two dates, under it
Section(first, last, from, to) ==
  [kind |-> "section", first |-> first, last |-> last, from |-> from, to |-> to]

\* "Test Loss: 0.860405", in millionths
LossLine(micro) == [kind |-> "loss", micro |-> micro]

\* "Test Accuracy of cat: 36% (367/1000)"
ClassLine(name, pct, correct, total) ==
  [kind |-> "class", name |-> name, pct |-> pct, correct |-> correct,
   total |-> total]

\* "Test Accuracy (Overall): 70% (7011/10000)"
OverallLine(pct, correct, total) ==
  [kind |-> "overall", pct |-> pct, correct |-> correct, total |-> total]

\* the sections of days 1 to 5
Days1to5 ==
  << Section(1, 1, << 21, 10, 2019 >>, << 21, 10, 2019 >>),
     Section(2, 2, << 22, 10, 2019 >>, << 22, 10, 2019 >>),
     Section(3, 3, << 23, 10, 2019 >>, << 23, 10, 2019 >>),
     Section(4, 4, << 24, 10, 2019 >>, << 24, 10, 2019 >>),
     Section(5, 5, << 25, 10, 2019 >>, << 25, 10, 2019 >>) >>

\* the log of day 5 with two digits of the cat tally exchanged
Cifar10LogMistallied ==
  << LossLine(860405),
     ClassLine("airplane", 69, 699, 1000),
     ClassLine("automobile", 74, 742, 1000),
     ClassLine("bird", 60, 600, 1000),
     ClassLine("cat", 36, 376, 1000),
     ClassLine("deer", 74, 742, 1000),
     ClassLine("dog", 64, 644, 1000),
     ClassLine("frog", 75, 758, 1000),
     ClassLine("horse", 74, 744, 1000),
     ClassLine("ship", 85, 852, 1000),
     ClassLine("truck", 86, 863, 1000),
     OverallLine(70, 7011, 10000) >>

\* the output log of day 5: ten CIFAR-10 classes and the overall line
Cifar10Log ==
  << LossLine(860405),
     ClassLine("airplane", 69, 699, 1000),
     ClassLine("automobile", 74, 742, 1000),
     ClassLine("bird", 60, 600, 1000),
     ClassLine("cat", 36, 367, 1000),
     ClassLine("deer", 74, 742, 1000),
     ClassLine("dog", 64, 644, 1000),
     ClassLine("frog", 75, 758, 1000),
     ClassLine("horse", 74, 744, 1000),
     ClassLine("ship", 85, 852, 1000),
     ClassLine("truck", 86, 863, 1000),
     OverallLine(70, 7011, 10000) >>

\* the sections of days 6 to 11
Days6to11 ==
  << Section(6, 6, << 26, 10, 2019 >>, << 26, 10, 2019 >>),
     Section(7, 9, << 28, 10, 2019 >>, << 30, 10, 2019 >>),
     Section(10, 10, << 31, 10, 2019 >>, << 31, 10, 2019 >>),
     Section(11, 11, << 1, 11, 2019 >>, << 1, 11, 2019 >>) >>

\* the output log of day 11: five flower classes and the overall line
FlowerLog ==
  << LossLine(459630),
     ClassLine("daisy", 82, 76, 92),
     ClassLine("dandelion", 91, 121, 132),
     ClassLine("roses", 74, 68, 91),
     ClassLine("sunflowers", 91, 92, 101),
     ClassLine("tulips", 75, 94, 124),
     OverallLine(83, 451, 540) >>

\* the sections of days 12 to 19
Days12to19 ==
  << Section(12, 12, << 2, 11, 2019 >>, << 2, 11, 2019 >>),
     Section(13, 13, << 3, 11, 2019 >>, << 3, 11, 2019 >>),
     Section(14, 14, << 4, 11, 2019 >>, << 4, 11, 2019 >>),
     Section(15, 15, << 5, 11, 2019 >>, << 5, 11, 2019 >>),
     Section(16, 16, << 6, 11, 2019 >>, << 6, 11, 2019 >>),
     Section(17, 17, << 7, 11, 2019 >>, << 7, 11, 2019 >>),
     Section(18, 18, << 8, 11, 2019 >>, << 8, 11, 2019 >>),
     Section(19, 19, << 9, 11, 2019 >>, << 9, 11, 2019 >>) >>

\* days 20 to 30 with the first section covering days 20-21 only
Days20to30Gap ==
  << Section(20, 21, << 12, 11, 2019 >>, << 12, 11, 2019 >>),
     Section(23, 23, << 13, 11, 2019 >>, << 13, 11, 2019 >>),
     Section(24, 24, << 14, 11, 2019 >>, << 14, 11, 2019 >>),
     Section(25, 25, << 15, 11, 2019 >>, << 15, 11, 2019 >>),
     Section(26, 26, << 17, 11, 2019 >>, << 17, 11, 2019 >>),
     Section(27, 27, << 18, 11, 2019 >>, << 18, 11, 2019 >>),
     Section(28, 28, << 20, 11, 2019 >>, << 20, 11, 2019 >>),
     Section(29, 29, << 21, 11, 2019 >>, << 21, 11, 2019 >>),
     Section(30, 30, << 22, 11, 2019 >>, << 22, 11, 2019 >>) >>

\* the sections of days 20 to 30
Days20to30 ==
  << Section(20, 22, << 12, 11, 2019 >>, << 12, 11, 2019 >>),
     Section(23, 23, << 13, 11, 2019 >>, << 13, 11, 2019 >>),
     Section(24, 24, << 14, 11, 2019 >>, << 14, 11, 2019 >>),
     Section(25, 25, << 15, 11, 2019 >>, << 15, 11, 2019 >>),
     Section(26, 26, << 17, 11, 2019 >>, << 17, 11, 2019 >>),
     Section(27, 27, << 18, 11, 2019 >>, << 18, 11, 2019 >>),
     Section(28, 28, << 20, 11, 2019 >>, << 20, 11, 2019 >>),
     Section(29, 29, << 21, 11, 2019 >>, << 21, 11, 2019 >>),
     Section(30, 30, << 22, 11, 2019 >>, << 22, 11, 2019 >>) >>

\* the journal file, which ends with day 19
Journal == Days1to5 \o Cifar10Log \o Days6to11 \o FlowerLog \o Days12to19

\* the three copies of it in the other file: up to day 5, complete, and up
\* to day 10
FirstCopy == Days1to5 \o Cifar10Log

CompleteCopy == Journal \o Days20to30

LastCopy == Days1to5 \o Cifar10Log \o SubSeq(Days6to11, 1, 3)

Documents == {"journal", "first copy", "complete copy", "last copy"}

Text(d) ==
  CASE d = "journal" -> Journal
    [] d = "first copy" -> FirstCopy
    [] d = "complete copy" -> CompleteCopy
    [] OTHER -> LastCopy

\* the days before the first of each month, in a year of 365 days
DaysBefore == << 0, 31, 59, 90, 120, 151, 181, 212, 243, 273, 304, 334 >>

\* dd/mm/yyyy as a count of days
Ordinal(date) == (date[3] - 2019) * 365 + DaysBefore[date[2]] + date[1]

\* the days first to last
DaysOf(first, last) == [i \in 1..(last - first + 1) |-> first + i - 1]

\* the integer part of 100 * correct / total
Percent(correct, total) == (100 * correct) \div total

\* the state of the notebook, which reading the journal does not touch
notebook ==
  << cell, pc, ran, err, ns, definedIn, crossReads, heap, iter, passOps,
     prevPass, stdout, lastStep >>

\* a document is opened for reading
OpenDoc(d) ==
  /\ reader.doc = "none"
  /\ d \notin reader.done
  /\ reader' = [Closed(reader.done) EXCEPT !.doc = d]
  /\ UNCHANGED notebook

\* the next line is read: a section adds its days and dates, a loss line
\* starts a log, a class line adds to the tallies of the log
ReadLine ==
  /\ reader.doc # "none"
  /\ reader.pos < Len(Text(reader.doc))
  /\ LET it == Text(reader.doc)[reader.pos + 1]
         r == [reader EXCEPT !.pos = @ + 1, !.last = it]
     IN reader' =
          CASE it.kind = "section" ->
                 [r EXCEPT !.covered = @ \o DaysOf(it.first, it.last),
                           !.dates = @ \o (IF it.from = it.to
                                           THEN << Ordinal(it.from) >>
                                           ELSE << Ordinal(it.from), Ordinal(it.to) >>),
                           !.correct = 0, !.total = 0, !.classes = 0]
            [] it.kind = "loss" ->
                 [r EXCEPT !.correct = 0, !.total = 0, !.classes = 0]
            [] it.kind = "class" ->
                 [r EXCEPT !.correct = @ + it.correct, !.total = @ + it.total,
                           !.classes = @ + 1]
            [] OTHER -> r
  /\ UNCHANGED notebook

\* the end of the document
CloseDoc ==
  /\ reader.doc # "none"
  /\ reader.pos = Len(Text(reader.doc))
  /\ reader' = [reader EXCEPT !.doc = "none", !.done = @ \cup {reader.doc}]
  /\ UNCHANGED notebook

NextLine == (\E d \in Documents : OpenDoc(d)) \/ ReadLine \/ CloseDoc

\* the journal and its copies read in any order
Reading == Init /\ [][NextLine]_vars

(* ------------------------------------------------------------------ *)
(* The order of a training pass                                        *)
(* ------------------------------------------------------------------ *)
\* the steps of one batch iteration of the training loop, in the order of
\* lines 607-624
PassOrder ==
  << "flatten", "zero_grad", "forward", "loss", "backward", "step",
     "accumulate" >>

CoreOrder == << "forward", "loss", "backward", "step" >>

IsPrefix(s, t) == Len(s) <= Len(t) /\ \A i \in 1..Len(s) : s[i] = t[i]

IsCore(op) == op \in {"forward", "loss", "backward", "step"}

\* batches the loop of the running cell has drawn so far
PassesBegun ==
  IF iter.epoch = 0 THEN 0 ELSE (iter.epoch - 1) * NumBatches + iter.batch

\* the training loop is inside a batch iteration, or between two
InLoop == cell = "train" /\ PassesBegun >= 1

\* C1 as the spec states it: in a batch iteration of the training loop the
\* gradient reset comes after the parameter step, so whenever zero_grad has
\* run in the iteration, step has run in it before.
C1_ResetAfterStep ==
  InLoop =>
    \A j \in 1..Len(passOps) :
      passOps[j] = "zero_grad" => \E i \in 1..(j - 1) : passOps[i] = "step"

\* C1 amended: every batch iteration of the training loop performs its steps
\* in the order flatten, gradient reset, forward pass, loss, backward pass,
\* parameter step, loss accumulation: the reset precedes the forward pass.
C1_ResetFirst == InLoop => IsPrefix(passOps, PassOrder)

\* a batch iteration of the training loop has run all its steps
C1_Witness == InLoop /\ passOps = PassOrder

\* C2: in every training pass the calls come in the order forward, loss,
\* backward, step; a step finds at least one backward on the model it
\* updates since that model's previous step, and the loss it follows was
\* computed on that model.
C2_CanonicalOrder ==
  /\ IsPrefix(SelectSeq(passOps, IsCore), CoreOrder)
  /\ lastStep.valid => lastStep.back >= 1 /\ lastStep.lossNet = lastStep.net

\* the demo's step, two cells after its forward pass, has run
C2_Witness ==
  /\ cell = "update"
  /\ lastStep.valid
  /\ SelectSeq(passOps, IsCore) = CoreOrder

\* C3: at every optimizer.step() the gradient of the parameters it updates
\* is the gradient of the current batch's loss and of nothing else.
C3_GradientOfCurrentBatch ==
  lastStep.valid =>
    /\ lastStep.grad.set
    /\ lastStep.grad.srcs = << lastStep.tag >>
    /\ lastStep.grad.val = lastStep.g

\* the demo's step has run on the model whose gradient the earlier
\* "Before/After backward pass" cell had filled
C3_Witness ==
  /\ cell = "update"
  /\ lastStep.valid
  /\ lastStep.tag = << 521, 0, 0 >>
  /\ heap[lastStep.net].by = "autograd"

(* ------------------------------------------------------------------ *)
(* The printed training loss                                           *)
(* ------------------------------------------------------------------ *)
\* every recorded line after the first is lower than the line before it
RecordedDrops ==
  \A i \in 2..Len(RecordedOutput) : Less(RecordedOutput[i], RecordedOutput[i - 1])

C6_PredictsWithTrainedModel ==
  definedIn["logps"] # "unbound" =>
    /\ ns.logps.by = "train"
    /\ ns.logps.steps = Epochs * NumBatches
    /\ ns.logps.kind = "logprob"
    /\ definedIn["ps"] # "unbound" => ns.ps.kind = "prob"

\* the prediction cell has run to its end
C6_Witness ==
  /\ cell = "idle"
  /\ definedIn["ps"] = "predict"
  /\ ns.logps.shape = << 1, Classes >>

(* ------------------------------------------------------------------ *)
(* Failure                                                             *)
(* ------------------------------------------------------------------ *)
\* C7: when a step of a training pass raises, the cell stops at that
\* statement: the pass is not finished, no later pass and no print of that
\* epoch runs, and the updates of the passes completed before stay applied.
C7_FailureStopsTheCell ==
  err.kind = "Exception" =>
    /\ cell = "idle"
    /\ Code(err.cell)[pc].line = err.line
    /\ IsPrefix(passOps, PassOrder) /\ Len(passOps) < Len(PassOrder)
    /\ stdout.n = iter.epoch - 1
    /\ heap[ns.model].steps = PassesBegun - 1

\* the backward pass of a later epoch has raised
C7_Witness ==
  /\ err.kind = "Exception"
  /\ err.line = 619
  /\ stdout.n >= 1
  /\ heap[ns.model].steps > NumBatches

(* ------------------------------------------------------------------ *)
(* State shared between cells                                          *)
(* ------------------------------------------------------------------ *)
\* names bound by an import statement
Modules == {"torch", "nn", "F", "datasets", "transforms", "optim", "helper"}

\* variables assigned in one cell and read in another
Shared == crossReads \ Modules

SharedVariables ==
  {"trainloader", "x", "y", "z", "model", "loss", "criterion", "optimizer"}

RunComplete == cell = "idle" /\ ran = Len(Notebook) /\ err.kind = "none"

\* C8 as claimed: no variable other than `model` is assigned in one code
\* cell and read in a later one.
C8_OnlyModelShared == Shared \subseteq {"model"}

\* C8 amended: the variables assigned in one code cell and read in a later
\* one are trainloader, x, y, z, model, loss, criterion and optimizer, and
\* no others.
C8_SharedVariables ==
  /\ Shared \subseteq SharedVariables
  /\ RunComplete => Shared = SharedVariables

\* the whole notebook has run
C8_Witness == RunComplete /\ "optimizer" \in Shared /\ "loss" \in Shared

(* ------------------------------------------------------------------ *)
(* Shapes                                                              *)
(* ------------------------------------------------------------------ *)
LastOp == IF passOps = << >> THEN "none" ELSE passOps[Len(passOps)]

\* the (in, out) widths of the Linear layers of a network
RECURSIVE Widths(_)
Widths(layers) ==
  IF layers = << >> THEN << >>
  ELSE IF Head(layers).kind = "Linear"
       THEN << << Head(layers).in, Head(layers).out >> >> \o Widths(Tail(layers))
       ELSE Widths(Tail(layers))

\* C9: a batch of b images is flattened to b rows of 784 values, the Linear
\* layers chain 784 -> 128 -> 64 -> 10, the output has 10 scores per image,
\* the loss is one scalar per batch, and the gradient a step uses is that of
\* the loss of the very parameters it updates.
C9_ShapesConsistent ==
  /\ LastOp \in {"flatten", "resize"} => ns.images.shape = << ns.labels.n, Pixels >>
  /\ \A i \in 1..Len(heap) :
       heap[i].by # "freed" =>
         Widths(heap[i].layers) = << << 784, 128 >>, << 128, 64 >>, << 64, 10 >> >>
  /\ LastOp = "forward" =>
       \A a \in {"logits", "output"} :
         definedIn[a] = cell => ns[a].shape = << ns.labels.n, 10 >>
  /\ LastOp = "loss" => ns.loss.shape = << >> /\ ns.loss.n = ns.labels.n
  /\ lastStep.valid => lastStep.grad.set /\ lastStep.lossNet = lastStep.net

\* the short last batch of an epoch has gone through a whole pass
C9_Witness ==
  /\ InLoop
  /\ ns.labels.n = LastBatchSize
  /\ ns.logits.shape = << LastBatchSize, Classes >>
  /\ LastOp = "step"

(* ------------------------------------------------------------------ *)
(* Sequential execution                                                *)
(* ------------------------------------------------------------------ *)
\* C10: in the training loop a batch's pass has run all its steps, loss
\* accumulation included, before the next batch is drawn, and the updates
\* applied to the model are those of the passes begun, one per pass.
C10_PassesDoNotInterleave ==
  InLoop =>
    /\ PassesBegun >= 2 => prevPass = PassOrder
    /\ heap[ns.model].steps =
         IF \E i \in 1..Len(passOps) : passOps[i] = "step"
         THEN PassesBegun ELSE PassesBegun - 1

\* a pass is under way after another one has been completed
C10_Witness ==
  /\ InLoop
  /\ PassesBegun >= 2
  /\ prevPass = PassOrder
  /\ passOps = << "flatten", "zero_grad", "forward" >>

C14_PredictionLeavesModel ==
  cell = "predict" \/ definedIn["logps"] = "predict" =>
    /\ lastStep.net = ns.model
    /\ heap[ns.model].w = lastStep.after
    /\ heap[ns.model].grad = lastStep.grad
    /\ heap[ns.model].steps = Epochs * NumBatches
    /\ definedIn["logps"] = "predict" =>
         /\ ~ns.logps.rg
         /\ ns.logps.net = 0
         /\ ns.logps.w = lastStep.after

\* the forward pass of the prediction cell has run on a model whose last
\* training step moved its weight
C14_Witness ==
  /\ cell = "predict"
  /\ definedIn["logps"] = "predict"
  /\ lastStep.after # lastStep.before
  /\ heap[ns.model].grad.set

(* ------------------------------------------------------------------ *)
(* Termination of the training cell                                    *)
(* ------------------------------------------------------------------ *)
\* the training cell has run to its end
TrainDone ==
  /\ cell # "train"
  /\ definedIn["epochs"] = "train"
  /\ err.kind = "none"

\* one line is printed per epoch, after the last batch of that epoch
OnePrintPerEpoch ==
  cell = "train" /\ iter.epoch >= 1 =>
    \/ stdout.n = iter.epoch - 1
    \/ stdout.n = iter.epoch /\ iter.batch = NumBatches /\ Cur.op = "for_epoch"

\* the cell has made epochs * len(trainloader) steps and printed epochs lines
ExactCounts ==
  TrainDone =>
    /\ heap[ns.model].steps = Epochs * NumBatches
    /\ stdout.shown = "run"
    /\ stdout.n = Epochs

\* C15: the training cell always comes to an end; when it ends without an
\* error it has made exactly epochs * len(trainloader) optimizer steps and
\* printed exactly one line per epoch, each after the last batch of its
\* epoch.
C15_TrainingTerminates ==
  /\ [](OnePrintPerEpoch /\ ExactCounts)
  /\ (cell = "train") ~> (cell = "idle")

\* the training cell has just ended
C15_Witness ==
  /\ TrainDone
  /\ cell = "idle"
  /\ definedIn["logps"] = "unbound"
  /\ stdout.n = Epochs
  /\ iter.epoch = Epochs /\ iter.batch = NumBatches

(* ------------------------------------------------------------------ *)
(* The running loss                                                    *)
(* ------------------------------------------------------------------ *)
\* the batches of the current epoch whose loss has been added
Accumulated ==
  IF iter.batch = 0 THEN 0
  ELSE IF LastOp = "accumulate" THEN iter.batch ELSE iter.batch - 1

\* C16: in the training loop, once running_loss = 0 has run for the epoch,
\* running_loss is the sum of the losses of the batches of this epoch
\* processed so far, one per batch and in order, and of nothing else; at the
\* print there are len(trainloader) of them, and the line printed is their
\* sum over len(trainloader).
C16_RunningLossOfEpoch ==
  /\ cell = "train" /\ iter.epoch >= 1 /\ Cur.op # "reset_running" =>
       LET of == ns.running_loss.of
       IN /\ Len(of) = Accumulated
          /\ \A i \in 1..Len(of) : of[i][1] = << 616, iter.epoch - 1, i >>
          /\ ns.running_loss.val = Sum([i \in 1..Len(of) |-> of[i][2]])
          /\ Cur.op = "print_loss" => Len(of) = NumBatches
  /\ stdout.shown = "run" /\ stdout.n >= 1 /\ err.kind = "none" =>
       \/ cell = "train" /\ stdout.n < iter.epoch
       \/ /\ stdout.last = Ratio(ns.running_loss.val, NumBatches)
          /\ Len(ns.running_loss.of) = NumBatches

\* the line of a later epoch is about to be printed, and losses were added
C16_Witness ==
  /\ cell = "train"
  /\ Cur.op = "print_loss"
  /\ iter.epoch = 3
  /\ ns.running_loss.val > 0
  /\ Len(ns.running_loss.of) = NumBatches

(* ------------------------------------------------------------------ *)
(* The journal's tallies and sections                                  *)
(* ------------------------------------------------------------------ *)
\* C17: in every accuracy log, each correct count is at most its total,
\* each percentage is the integer part of 100 * correct / total, and the
\* overall line carries the sums of the class lines above it: 7011/10000
\* of ten classes or 451/540 of five.
C17_TalliesAddUp ==
  LET it == reader.last
  IN /\ it.kind \in {"class", "overall"} =>
          /\ it.correct <= it.total
          /\ it.pct = Percent(it.correct, it.total)
     /\ it.kind = "overall" =>
          /\ reader.correct = it.correct
          /\ reader.total = it.total
          /\ \/ reader.classes = 10 /\ it.correct = 7011 /\ it.total = 10000
             \/ reader.classes = 5 /\ it.correct = 451 /\ it.total = 540

\* the overall line of the flower log of the journal file has been read
C17_Witness ==
  /\ reader.doc = "journal"
  /\ reader.last.kind = "overall"
  /\ reader.classes = 5
  /\ reader.total = 540

\* C18: in the complete copy the sections read so far cover the days 1, 2,
\* 3, ... without gap or overlap, the dates met are strictly increasing,
\* and at the end of the copy the days covered are 1 to 30.
C18_DaysInOrder ==
  reader.doc = "complete copy" =>
    /\ \A i \in 1..Len(reader.covered) : reader.covered[i] = i
    /\ \A i \in 2..Len(reader.dates) : reader.dates[i - 1] < reader.dates[i]
    /\ reader.pos = Len(CompleteCopy) => Len(reader.covered) = Days

\* the complete copy has been read to its last section, day 30
C18_Witness ==
  /\ reader.doc = "complete copy"
  /\ reader.pos = Len(CompleteCopy)
  /\ reader.last.kind = "section"
  /\ reader.last.last = Days

====
